---------------------------- MODULE Spec2Model ----------------------------
(***************************************************************************)
(* Model of src/app.py: the invoice field extractor (extract_info) and the *)
(* session-scoped record table (st.session_state.df) of the Streamlit      *)
(* script.                                                                 *)
(*                                                                         *)
(* A text is a sequence of characters; a character is a one-character      *)
(* string, and a CJK character is written as its code point ("u92B7" is    *)
(* U+92B7).  Positions are 1-based; position Len(t)+1 is the end of text.  *)
(***************************************************************************)
EXTENDS Integers, Sequences, FiniteSets, TLC

VARIABLES
    img_file,    \* the submitted image, as what reader.readtext reads from it
    data,        \* the record extract_info returned in the last run, or NoData
    df,          \* st.session_state.df
    editor_in,   \* the table handed to st.data_editor in the last run (line 100)
    edited_df,   \* the table st.data_editor returned in the last run
    exported,    \* the table handed to to_excel in the last run, or NoExport
    rerun,       \* TRUE while the st.rerun() of the clear handler is pending
    last         \* the interaction that caused the last script run

vars == <<img_file, data, df, editor_in, edited_df, exported, rerun, last>>

-----------------------------------------------------------------------------
(* Characters and the character classes the patterns use.                  *)

Digit == {"0", "1", "2", "3", "4", "5", "6", "7", "8", "9"}

\* [A-Z]
Upper == {"A", "B", "C", "D", "E", "F", "G", "H", "I", "J", "K", "L", "M",
          "N", "O", "P", "Q", "R", "S", "T", "U", "V", "W", "X", "Y", "Z"}

Lower == {"a", "b", "c", "d", "e", "f", "g", "h", "i", "j", "k", "l", "m",
          "n", "o", "p", "q", "r", "s", "t", "u", "v", "w", "x", "y", "z"}

\* 銷 售 額 稅 汽 油 無 鉛 賣 方
Ideograph == {"u92B7", "u552E", "u984D", "u7A05", "u6C7D", "u6CB9", "u7121",
              "u925B", "u8CE3", "u65B9"}

\* \d
IsDigit(c) == c \in Digit

\* \w of a str pattern: letters of any script, digits and the underscore
IsWord(c) == c \in Digit \cup Upper \cup Lower \cup Ideograph \cup {"_"}

\* \s
IsSpace(c) == c \in {" ", "\t", "\n", "\r"}

\* . (no DOTALL flag): any character but the newline
IsDot(c) == c # "" /\ c # "\n"

\* The character at position p; "" outside the text.
At(t, p) == IF p \in 1..Len(t) THEN t[p] ELSE ""

\* d{n} at p
Digits(t, p, n) == \A k \in 0..(n - 1) : IsDigit(At(t, p + k))

\* A literal word at p
Lit(t, p, w) == \A k \in 1..Len(w) : At(t, p + k - 1) = w[k]

\* \b at p: exactly one of the characters before and at p is a word character
WordBoundary(t, p) == IsWord(At(t, p - 1)) # IsWord(At(t, p))

\* The length of the longest run of digits starting at p
DigitRun(t, p) ==
    LET RECURSIVE run(_)
        run(k) == IF IsDigit(At(t, p + k)) THEN run(k + 1) ELSE k
    IN run(0)

-----------------------------------------------------------------------------
(* Match objects.  re.search tries the start positions from the left and   *)
(* returns the first match; each pattern below has its own scan.           *)

NoMatch == [ok |-> FALSE]

Match(gs) == [ok |-> TRUE, groups |-> gs]

\* m.group(n); the groups are kept from 0
Group(m, n) == m.groups[n + 1]

-----------------------------------------------------------------------------
(* str(int(y) + 1911)                                                      *)

DigitChars == <<"0", "1", "2", "3", "4", "5", "6", "7", "8", "9">>

DigitVal(c) == (CHOOSE k \in 1..10 : DigitChars[k] = c) - 1

\* int(s) of a non-empty digit string
RECURSIVE ToInt(_)
ToInt(s) == IF Len(s) = 0 THEN 0
            ELSE 10 * ToInt(SubSeq(s, 1, Len(s) - 1)) + DigitVal(s[Len(s)])

\* str(n) of a natural number
RECURSIVE ToStr(_)
ToStr(n) == IF n < 10 THEN <<DigitChars[n + 1]>>
            ELSE ToStr(n \div 10) \o <<DigitChars[(n % 10) + 1]>>

RepublicOffset == 1911

-----------------------------------------------------------------------------
(* 1. seller id: re.search(r'\b\d{8}\b', full_text)                        *)

\* Variant: the pattern without its closing \b
seller_at_open(t, i) ==
    IF WordBoundary(t, i) /\ Digits(t, i, 8)
    THEN Match(<<SubSeq(t, i, i + 7)>>)
    ELSE NoMatch

seller_at(t, i) ==
    IF WordBoundary(t, i) /\ Digits(t, i, 8) /\ WordBoundary(t, i + 8)
    THEN Match(<<SubSeq(t, i, i + 7)>>)
    ELSE NoMatch

seller_search(t) ==
    LET RECURSIVE scan(_)
        scan(i) == IF i > Len(t) + 1 THEN NoMatch
                   ELSE LET m == seller_at(t, i)
                        IN IF m.ok THEN m ELSE scan(i + 1)
    IN scan(1)

-----------------------------------------------------------------------------
(* 2. date: re.search(r'(\d{3,4})[/.-](\d{2})[/.-](\d{2})', full_text)     *)

\* [/.-]
IsDateSep(c) == c \in {"/", ".", "-"}

\* [/.-](\d{2})[/.-](\d{2}) at p
date_rest(t, p) ==
    /\ IsDateSep(At(t, p))
    /\ Digits(t, p + 1, 2)
    /\ IsDateSep(At(t, p + 3))
    /\ Digits(t, p + 4, 2)

\* The year is greedy: four digits are tried before three.
date_at(t, i) ==
    IF Digits(t, i, 4) /\ date_rest(t, i + 4)
    THEN Match(<<SubSeq(t, i, i + 9), SubSeq(t, i, i + 3),
                 SubSeq(t, i + 5, i + 6), SubSeq(t, i + 8, i + 9)>>)
    ELSE IF Digits(t, i, 3) /\ date_rest(t, i + 3)
    THEN Match(<<SubSeq(t, i, i + 8), SubSeq(t, i, i + 2),
                 SubSeq(t, i + 4, i + 5), SubSeq(t, i + 7, i + 8)>>)
    ELSE NoMatch

date_search(t) ==
    LET RECURSIVE scan(_)
        scan(i) == IF i > Len(t) + 1 THEN NoMatch
                   ELSE LET m == date_at(t, i)
                        IN IF m.ok THEN m ELSE scan(i + 1)
    IN scan(1)

\* Variant: the year is never converted
date_format_raw(m) ==
    Group(m, 1) \o <<"/">> \o Group(m, 2) \o <<"/">> \o Group(m, 3)

\* if len(y) == 3: y = str(int(y) + 1911);  date_str = f"{y}/{m}/{d}"
date_format(m) ==
    LET y0 == Group(m, 1)
        y  == IF Len(y0) = 3 THEN ToStr(ToInt(y0) + RepublicOffset) ELSE y0
    IN y \o <<"/">> \o Group(m, 2) \o <<"/">> \o Group(m, 3)

-----------------------------------------------------------------------------
(* 3. invoice number: re.search(r'([A-Z]{2})[- ]?(\d{8})', full_text)      *)

\* [- ]
IsInvSep(c) == c \in {"-", " "}

\* The optional separator is greedy: it is taken when present, and given
\* back when the digits do not follow it.
inv_at(t, i) ==
    IF At(t, i) \in Upper /\ At(t, i + 1) \in Upper
    THEN IF IsInvSep(At(t, i + 2)) /\ Digits(t, i + 3, 8)
         THEN Match(<<SubSeq(t, i, i + 10), SubSeq(t, i, i + 1),
                      SubSeq(t, i + 3, i + 10)>>)
         ELSE IF Digits(t, i + 2, 8)
         THEN Match(<<SubSeq(t, i, i + 9), SubSeq(t, i, i + 1),
                      SubSeq(t, i + 2, i + 9)>>)
         ELSE NoMatch
    ELSE NoMatch

inv_search(t) ==
    LET RECURSIVE scan(_)
        scan(i) == IF i > Len(t) + 1 THEN NoMatch
                   ELSE LET m == inv_at(t, i)
                        IN IF m.ok THEN m ELSE scan(i + 1)
    IN scan(1)

-----------------------------------------------------------------------------
(* 4. fuel item: re.search(r'95.*?\s?(\d+\.\d{3})', full_text)             *)

\* (\d+\.\d{3}) at p: the integer part is greedy and gives digits back one
\* at a time; the match object holds the position after the number and the
\* number.
number_at(t, p) ==
    LET RECURSIVE back(_)
        back(j) == IF j < 1 THEN NoMatch
                   ELSE IF At(t, p + j) = "." /\ Digits(t, p + j + 1, 3)
                   THEN Match(<<p + j + 4, SubSeq(t, p, p + j + 3)>>)
                   ELSE back(j - 1)
    IN back(DigitRun(t, p))

\* Variant: a greedy .* in place of the lazy .*?
fuel_at_greedy(t, i) ==
    LET RECURSIVE greedy(_)
        greedy(p) ==
            LET a == IF IsSpace(At(t, p)) THEN number_at(t, p + 1) ELSE NoMatch
                b == number_at(t, p)
            IN IF p < i + 2 THEN NoMatch
               ELSE IF a.ok
               THEN Match(<<SubSeq(t, i, Group(a, 0) - 1), Group(a, 1)>>)
               ELSE IF b.ok
               THEN Match(<<SubSeq(t, i, Group(b, 0) - 1), Group(b, 1)>>)
               ELSE greedy(p - 1)
    IN IF Lit(t, i, <<"9", "5">>) THEN greedy(Len(t) + 1) ELSE NoMatch

\* .*? is lazy: with the dot at p, first the rest of the pattern is tried
\* (\s? greedy: with the space, then without), then the dot takes one more
\* character.
fuel_at(t, i) ==
    LET RECURSIVE lazy(_)
        lazy(p) ==
            LET a == IF IsSpace(At(t, p)) THEN number_at(t, p + 1) ELSE NoMatch
                b == number_at(t, p)
            IN IF a.ok THEN Match(<<SubSeq(t, i, Group(a, 0) - 1), Group(a, 1)>>)
               ELSE IF b.ok
               THEN Match(<<SubSeq(t, i, Group(b, 0) - 1), Group(b, 1)>>)
               ELSE IF IsDot(At(t, p)) THEN lazy(p + 1)
               ELSE NoMatch
    IN IF Lit(t, i, <<"9", "5">>) THEN lazy(i + 2) ELSE NoMatch

fuel_search(t) ==
    LET RECURSIVE scan(_)
        scan(i) == IF i > Len(t) + 1 THEN NoMatch
                   ELSE LET m == fuel_at(t, i)
                        IN IF m.ok THEN m ELSE scan(i + 1)
    IN scan(1)

\* "00.000"
DefaultLiters == <<"0", "0", ".", "0", "0", "0">>

\* f"95汽油 {liters} L"
item_format(liters) ==
    <<"9", "5", "u6C7D", "u6CB9", " ">> \o liters \o <<" ", "L">>

-----------------------------------------------------------------------------
(* 5, 6. amounts: re.search(r'(銷售額|Amount)[: ]*(\d+)', full_text) and   *)
(*                re.search(r'(稅額|Tax)[: ]*(\d+)', full_text)            *)

SalesKeywords == << <<"u92B7", "u552E", "u984D">>,
                    <<"A", "m", "o", "u", "n", "t">> >>

TaxKeywords == << <<"u7A05", "u984D">>, <<"T", "a", "x">> >>

\* [: ]
IsAmountSep(c) == c \in {":", " "}

\* The length of the longest run of ':' and ' ' starting at p
AmountSepRun(t, p) ==
    LET RECURSIVE run(_)
        run(k) == IF IsAmountSep(At(t, p + k)) THEN run(k + 1) ELSE k
    IN run(0)

\* [: ]*(\d+) at p: both greedy; the separators are given back one at a
\* time until a digit follows.
amount_rest(t, p) ==
    LET RECURSIVE back(_)
        back(j) == IF j < 0 THEN NoMatch
                   ELSE IF IsDigit(At(t, p + j))
                   THEN Match(<<p + j + DigitRun(t, p + j),
                                SubSeq(t, p + j, p + j + DigitRun(t, p + j) - 1)>>)
                   ELSE back(j - 1)
    IN back(AmountSepRun(t, p))

\* (kw1|kw2)[: ]*(\d+) at i: the alternatives are tried in order.
amount_at(t, i, kws) ==
    LET RECURSIVE alt(_)
        alt(k) ==
            IF k > Len(kws) THEN NoMatch
            ELSE LET r == IF Lit(t, i, kws[k])
                          THEN amount_rest(t, i + Len(kws[k]))
                          ELSE NoMatch
                 IN IF r.ok
                    THEN Match(<<SubSeq(t, i, Group(r, 0) - 1), kws[k],
                                 Group(r, 1)>>)
                    ELSE alt(k + 1)
    IN alt(1)

amount_search(t, kws) ==
    LET RECURSIVE scan(_)
        scan(i) == IF i > Len(t) + 1 THEN NoMatch
                   ELSE LET m == amount_at(t, i, kws)
                        IN IF m.ok THEN m ELSE scan(i + 1)
    IN scan(1)

-----------------------------------------------------------------------------
(* extract_info                                                            *)

\* The six keys of the returned dict, which are also the columns of the
\* table: 賣方統編, 發票日期, 發票號碼, 項目, 憑證金額, 原幣稅額.
KSeller == "u8CE3u65B9u7D71u7DE8"
KDate   == "u767Cu7968u65E5u671F"
KNumber == "u767Cu7968u865Fu78BC"
KItem   == "u9805u76EE"
KSales  == "u6191u8B49u91D1u984D"
KTax    == "u539Fu5E63u7A05u984D"

\* " ".join(results)
RECURSIVE Join(_)
Join(rs) == IF Len(rs) = 0 THEN <<>>
            ELSE IF Len(rs) = 1 THEN rs[1]
            ELSE rs[1] \o <<" ">> \o Join(Tail(rs))

\* The fields, each from its own search of the same full text.
seller_id(t) == LET m == seller_search(t) IN IF m.ok THEN Group(m, 0) ELSE <<>>

date_str(t) == LET m == date_search(t) IN IF m.ok THEN date_format(m) ELSE <<>>

\* Variant: the whole match, separator included
inv_number_whole(t) ==
    LET m == inv_search(t) IN IF m.ok THEN Group(m, 0) ELSE <<>>

inv_number(t) ==
    LET m == inv_search(t) IN IF m.ok THEN Group(m, 1) \o Group(m, 2) ELSE <<>>

\* Variant: an unmatched item is left blank like the other fields
item_desc_blank(t) ==
    LET m == fuel_search(t)
    IN IF m.ok THEN item_format(Group(m, 1)) ELSE <<>>

item_desc(t) ==
    LET m == fuel_search(t)
    IN item_format(IF m.ok THEN Group(m, 1) ELSE DefaultLiters)

sales_amt(t) ==
    LET m == amount_search(t, SalesKeywords) IN IF m.ok THEN Group(m, 2) ELSE <<>>

\* Variant: the tax is looked for only once the sales amount was found
tax_amt_after_sales(t) ==
    LET s == amount_search(t, SalesKeywords)
        m == amount_search(t, TaxKeywords)
    IN IF s.ok /\ m.ok THEN Group(m, 2) ELSE <<>>

tax_amt(t) ==
    LET m == amount_search(t, TaxKeywords) IN IF m.ok THEN Group(m, 2) ELSE <<>>

\* The returned dict, as its (key, value) pairs in insertion order.
extract_info(rs) ==
    LET full_text == Join(rs)
    IN << <<KSeller, seller_id(full_text)>>,
          <<KDate,   date_str(full_text)>>,
          <<KNumber, inv_number(full_text)>>,
          <<KItem,   item_desc(full_text)>>,
          <<KSales,  sales_amt(full_text)>>,
          <<KTax,    tax_amt(full_text)>> >>

\* d[key]
Get(d, key) == d[CHOOSE k \in 1..Len(d) : d[k][1] = key][2]

-----------------------------------------------------------------------------
(* The OCR output.  reader.readtext(img_array, detail=0) returns the list  *)
(* of the recognized text fragments; a fragment is a line of characters of *)
(* the recognizer's character set, which has no line break.  The fragments *)
(* below are the pieces of a fuel invoice and their near misses.           *)

Fragments == {
    <<"1", "2", "3", "4", "5", "6", "7", "8">>,                    \* 12345678
    <<"8", "7", "6", "5", "4", "3", "2", "1">>,                    \* 87654321
    <<"1", "2", "3", "4", "5", "6", "7", "8", "9">>,               \* 123456789
    <<"A", "B">>,                                                  \* AB
    <<"A", "B", "1", "2", "3", "4", "5", "6", "7", "8">>,          \* AB12345678
    <<"A", "B", "-", "1", "2", "3", "4", "5", "6", "7", "8">>,     \* AB-12345678
    <<"C", "D", "8", "7", "6", "5", "4", "3", "2", "1">>,          \* CD87654321
    <<"A", "B", "C", "-", "1", "2", "3", "4", "5", "6", "7", "8", "9">>, \* ABC-123456789
    <<"u8CE3", "u65B9", "1", "2", "3", "4", "5", "6", "7", "8">>,  \* 賣方12345678
    <<"1", "1", "3", "/", "0", "5", "/", "2", "0">>,               \* 113/05/20
    <<"2", "0", "2", "4", "-", "0", "5", "-", "2", "0">>,          \* 2024-05-20
    <<"1", "1", "1", "3", "/", "0", "5", "/", "2", "0">>,          \* 1113/05/20
    <<"0", "9", "9", ".", "1", "2", ".", "3", "1">>,               \* 099.12.31
    <<"1", "2", "0", "2", "4", "-", "0", "5", "-", "2", "0", "1">>, \* 12024-05-201
    <<"9", "5">>,                                                  \* 95
    <<"9", "5", "u7121", "u925B", "u6C7D", "u6CB9">>,              \* 95無鉛汽油
    <<"2", "3", ".", "4", "5", "6">>,                              \* 23.456
    <<"7", ".", "8", "9", "1", "2">>,                              \* 7.8912
    <<"L">>,                                                       \* L
    <<"A", "m", "o", "u", "n", "t", ":">>,                         \* Amount:
    <<"u92B7", "u552E", "u984D">>,                                 \* 銷售額
    <<"T", "a", "x", "A", "m", "o", "u", "n", "t">>,               \* TaxAmount
    <<"T", "a", "x">>,                                             \* Tax
    <<"u7A05", "u984D", ":", "5">>,                                \* 稅額:5
    <<"1", "0", "0">>,                                             \* 100
    <<":">>,                                                       \* :
    \* AB-12345678 113/05/20 95無鉛 23.456L 銷售額:100 稅額:5
    <<"A", "B", "-", "1", "2", "3", "4", "5", "6", "7",
      "8", " ", "1", "1", "3", "/", "0", "5", "/", "2",
      "0", " ", "9", "5", "u7121", "u925B", " ", "2", "3", ".",
      "4", "5", "6", "L", " ", "u92B7", "u552E", "u984D", ":", "1",
      "0", "0", " ", "u7A05", "u984D", ":", "5">>
}

MaxFrags == 2

\* All the lists of at most n fragments
RECURSIVE FragLists(_)
FragLists(n) ==
    IF n = 0 THEN {<<>>}
    ELSE LET shorter == FragLists(n - 1)
         IN shorter \cup {Append(rs, f) : rs \in shorter, f \in Fragments}

NoImage == [present |-> FALSE, results |-> <<>>]

Image(rs) == [present |-> TRUE, results |-> rs]

NoData == <<>>

-----------------------------------------------------------------------------
(* The table.  A DataFrame is its column labels and its rows, each row the *)
(* cell values in column order.                                            *)

DataFrame(cols, rws) == [columns |-> cols, rows |-> rws]

\* The missing value (None / NaN) of a cell
Missing == <<"None">>

\* pd.DataFrame(columns=[...]) at session start
InitDF == DataFrame(<<KSeller, KDate, KNumber, KItem, KSales, KTax>>, <<>>)

\* Variant: two labels of the second column list swapped
ClearDF_swapped ==
    DataFrame(<<KDate, KSeller, KNumber, KItem, KSales, KTax>>, <<>>)

\* pd.DataFrame(columns=[...]) of the clear handler
ClearDF == DataFrame(<<KSeller, KDate, KNumber, KItem, KSales, KTax>>, <<>>)

\* pd.DataFrame([data]): one row, the columns are the dict's keys in order
new_row(d) ==
    DataFrame([k \in 1..Len(d) |-> d[k][1]], << [k \in 1..Len(d) |-> d[k][2]] >>)

Range(f) == {f[k] : k \in DOMAIN f}

\* A row of a table with columns `from`, laid out on the columns `to`
Reindex(row, from, to) ==
    [k \in 1..Len(to) |->
        IF to[k] \in Range(from)
        THEN row[CHOOSE j \in 1..Len(from) : from[j] = to[k]]
        ELSE Missing]

\* Variant: the new rows first
concat_prepend(a, b) ==
    LET extra == SelectSeq(b.columns, LAMBDA c : c \notin Range(a.columns))
        cols  == a.columns \o extra
    IN DataFrame(cols,
                 [k \in 1..Len(b.rows) |-> Reindex(b.rows[k], b.columns, cols)]
                 \o [k \in 1..Len(a.rows) |-> Reindex(a.rows[k], a.columns, cols)])

\* pd.concat([a, b], ignore_index=True): the union of the columns in order
\* of appearance, the rows of a then the rows of b
concat(a, b) ==
    LET extra == SelectSeq(b.columns, LAMBDA c : c \notin Range(a.columns))
        cols  == a.columns \o extra
    IN DataFrame(cols,
                 [k \in 1..Len(a.rows) |-> Reindex(a.rows[k], a.columns, cols)]
                 \o [k \in 1..Len(b.rows) |-> Reindex(b.rows[k], b.columns, cols)])

\* df.empty: an axis of length 0
empty(t) == Len(t.columns) = 0 \/ Len(t.rows) = 0

-----------------------------------------------------------------------------
(* The blocks of one run of the script.                                    *)

\* lines 79-94: the extraction of the submitted image
preview(img) == IF img.present THEN extract_info(img.results) ELSE NoData

\* Variant: the previewed record is appended without the button
confirm_block_auto(img, pressed, t) ==
    IF img.present THEN concat(t, new_row(preview(img))) ELSE t

\* lines 91-93: the confirm button appends the previewed record
confirm_block(img, pressed, t) ==
    IF img.present /\ pressed THEN concat(t, new_row(preview(img))) ELSE t

NoExport == [offered |-> FALSE]

\* Variant: the export is offered for an empty table too
export_block_always(t) ==
    [offered |-> TRUE, table |-> t, index |-> FALSE,
     sheet_name |-> "u767Cu7968u7D00u9304"]

\* lines 106-116: to_excel(writer, index=False, sheet_name='發票紀錄') of a
\* non-empty table, offered through the download button
export_block(t) ==
    IF ~empty(t)
    THEN [offered |-> TRUE, table |-> t, index |-> FALSE,
          sheet_name |-> "u767Cu7968u7D00u9304"]
    ELSE NoExport

\* lines 118-120: the clear button resets the table and asks for a rerun
clear_block(pressed, t) == IF pressed THEN ClearDF ELSE t

MaxRows == 2

\* What the user can do in the editor (num_rows="dynamic"): delete a row,
\* add a row of missing values, retype a cell.
EditValues == {<<>>, <<"7">>}

EditColumns == {5}

DeleteRow(t, i) ==
    DataFrame(t.columns,
              [k \in 1..(Len(t.rows) - 1) |->
                  IF k < i THEN t.rows[k] ELSE t.rows[k + 1]])

AddRow(t) ==
    DataFrame(t.columns, Append(t.rows, [k \in 1..Len(t.columns) |-> Missing]))

SetCell(t, i, c, v) ==
    DataFrame(t.columns, [t.rows EXCEPT ![i] = [@ EXCEPT ![c] = v]])

\* An edit of the user, or none
NoEdit == [op |-> "none", row |-> 0, col |-> 0, val |-> <<>>]

\* The edits the user can make to table t
Edits(t) ==
    {[op |-> "delete", row |-> i, col |-> 0, val |-> <<>>] :
        i \in 1..Len(t.rows)}
    \cup (IF Len(t.rows) < MaxRows
          THEN {[op |-> "add", row |-> 0, col |-> 0, val |-> <<>>]}
          ELSE {})
    \cup {[op |-> "set", row |-> i, col |-> c, val |-> v] :
            i \in 1..Len(t.rows), c \in EditColumns, v \in EditValues}

\* line 100: st.data_editor(t, num_rows="dynamic") returns t with the
\* user's edit applied, and t itself when the user edited nothing
data_editor(t, e) ==
    CASE e.op = "delete" -> DeleteRow(t, e.row)
      [] e.op = "add"    -> AddRow(t)
      [] e.op = "set"    -> SetCell(t, e.row, e.col, e.val)
      [] OTHER           -> t

\* One run of the script, top to bottom: `img` is the image widget's value,
\* `confirm` and `clear` whether that button was pressed, `edit` what the
\* user did in the editor.
Run(img, confirm, edit, clear, kind) ==
    /\ img_file' = img
    /\ data' = preview(img)
    /\ editor_in' = confirm_block(img, confirm, df)
    /\ edited_df' = data_editor(editor_in', edit)
    /\ exported' = export_block(edited_df')
    /\ df' = clear_block(clear, edited_df')
    /\ rerun' = clear
    /\ last' = kind

-----------------------------------------------------------------------------
(* The session: each interaction runs the script once.                     *)

\* The images the user has at hand, each as the fragments read from it: a
\* photo with no text and a fuel invoice
Images == {
    <<>>,
    << <<"A", "B", "-", "1", "2", "3", "4", "5", "6", "7", "8">>,
       <<"1", "1", "3", "/", "0", "5", "/", "2", "0">>,
       <<"9", "5">>, <<"2", "3", ".", "4", "5", "6">>,
       <<"A", "m", "o", "u", "n", "t", ":">>, <<"1", "0", "0">>,
       <<"T", "a", "x">>, <<"5">> >>
}

Init ==
    /\ img_file = NoImage
    /\ data = NoData
    /\ df = InitDF
    /\ editor_in = InitDF
    /\ edited_df = InitDF
    /\ exported = NoExport
    /\ rerun = FALSE
    /\ last = "start"

\* The user takes or uploads a photo.
Submit ==
    /\ ~rerun
    /\ \E rs \in Images : Run(Image(rs), FALSE, NoEdit, FALSE, "submit")

\* The user removes the photo.
Remove ==
    /\ ~rerun
    /\ img_file.present
    /\ Run(NoImage, FALSE, NoEdit, FALSE, "remove")

\* The user presses the confirm button of the preview.
Confirm ==
    /\ ~rerun
    /\ img_file.present
    /\ Len(df.rows) < MaxRows
    /\ Run(img_file, TRUE, NoEdit, FALSE, "confirm")

\* The user edits the table.
Edit ==
    /\ ~rerun
    /\ \E e \in Edits(df) :
          /\ data_editor(df, e) # df
          /\ Run(img_file, FALSE, e, FALSE, "edit")

\* The user presses the download button.
Download ==
    /\ ~rerun
    /\ exported.offered
    /\ Run(img_file, FALSE, NoEdit, FALSE, "download")

\* The user presses the clear button.
Clear ==
    /\ ~rerun
    /\ Run(img_file, FALSE, NoEdit, TRUE, "clear")

\* st.rerun(): the script runs again, no button pressed.
Rerun ==
    /\ rerun
    /\ Run(img_file, FALSE, NoEdit, FALSE, "rerun")

Next == Submit \/ Remove \/ Confirm \/ Edit \/ Download \/ Clear \/ Rerun

Spec == Init /\ [][Next]_vars

-----------------------------------------------------------------------------
(* The extractor alone, on every list of at most MaxFrags fragments.       *)

InitExtract ==
    /\ img_file \in {Image(rs) : rs \in FragLists(MaxFrags)}
    /\ data = NoData
    /\ df = InitDF
    /\ editor_in = InitDF
    /\ edited_df = InitDF
    /\ exported = NoExport
    /\ rerun = FALSE
    /\ last = "start"

ExtractInfo ==
    /\ last = "start"
    /\ data' = extract_info(img_file.results)
    /\ last' = "extract"
    /\ UNCHANGED <<img_file, df, editor_in, edited_df, exported, rerun>>

NextExtract == ExtractInfo

SpecExtract == InitExtract /\ [][NextExtract]_vars

-----------------------------------------------------------------------------
(* Vocabulary of the properties of the extractor.  An occurrence is stated *)
(* by the characters at its positions, not by running a search.            *)

\* The text the extractor was given, and whether it has returned
FullText == Join(img_file.results)

Extracted == last = "extract"

Field(key) == Get(data, key)

\* The least element of a non-empty set of positions
Least(S) == CHOOSE i \in S : \A j \in S : i <= j

\* Word w occurs in t at position i; w occurs in t
OccursAt(t, i, w) ==
    i >= 1 /\ i + Len(w) - 1 <= Len(t) /\ SubSeq(t, i, i + Len(w) - 1) = w

Contains(t, w) == \E i \in 1..Len(t) : OccursAt(t, i, w)

\* Positions i..j of t hold digits only
AllDigits(t, i, j) ==
    i >= 1 /\ j <= Len(t) /\ \A k \in i..j : t[k] \in Digit

\* Start positions of 8 digits with no digit before and none after
DigitBoundedRuns(t) ==
    {i \in 1..Len(t) : /\ AllDigits(t, i, i + 7)
                       /\ At(t, i - 1) \notin Digit
                       /\ At(t, i + 8) \notin Digit}

\* Start positions of 8 digits with no letter, digit or underscore before
\* and none after
WordBoundedRuns(t) ==
    {i \in 1..Len(t) : /\ AllDigits(t, i, i + 7)
                       /\ ~IsWord(At(t, i - 1))
                       /\ ~IsWord(At(t, i + 8))}

\* Date occurrences <<i, n>>: n digits of year at i (n = 3 or 4), a
\* separator, 2 digits, a separator, 2 digits
DateOccurrences(t) ==
    {o \in (1..Len(t)) \X {3, 4} :
        LET i == o[1]
            n == o[2]
        IN /\ AllDigits(t, i, i + n - 1)
           /\ At(t, i + n) \in {"/", ".", "-"}
           /\ AllDigits(t, i + n + 1, i + n + 2)
           /\ At(t, i + n + 3) \in {"/", ".", "-"}
           /\ AllDigits(t, i + n + 4, i + n + 5)}

FirstDate(t) ==
    LET O == DateOccurrences(t)
    IN CHOOSE o \in O : \A q \in O : o[1] <= q[1]

\* Invoice number occurrences <<i, s>>: 2 capitals at i, s separators
\* (s = 0 or 1), 8 digits
InvOccurrences(t) ==
    {o \in (1..Len(t)) \X {0, 1} :
        LET i == o[1]
            s == o[2]
        IN /\ At(t, i) \in Upper
           /\ At(t, i + 1) \in Upper
           /\ (s = 1 => At(t, i + 2) \in {"-", " "})
           /\ AllDigits(t, i + 2 + s, i + 9 + s)}

FirstInv(t) ==
    LET O == InvOccurrences(t)
    IN CHOOSE o \in O : \A q \in O : o[1] <= q[1]

\* Positions of the marker "95"
Markers(t) == {i \in 1..Len(t) : At(t, i) = "9" /\ At(t, i + 1) = "5"}

\* Decimal numbers <<s, e>>: positions s..e hold one or more digits, a
\* point and 3 digits
Decimals(t) ==
    {n \in (1..Len(t)) \X (1..Len(t)) :
        LET b == n[1]
            e == n[2]
        IN /\ e - b >= 4
           /\ AllDigits(t, b, e - 4)
           /\ t[e - 3] = "."
           /\ AllDigits(t, e - 2, e)}

\* The decimal numbers that start after the first marker
DecimalsAfterMarker(t) ==
    IF Markers(t) = {} THEN {}
    ELSE {n \in Decimals(t) : n[1] >= Least(Markers(t)) + 2}

\* The digit runs <<b, e>> that follow position p after ':' and ' ' only:
\* positions p..b-1 hold ':' and ' ', and b..e is a whole run of digits
AmountsAfter(t, p) ==
    {r \in (p..Len(t)) \X (p..Len(t)) :
        LET b == r[1]
            e == r[2]
        IN /\ e >= b
           /\ \A q \in p..(b - 1) : t[q] \in {":", " "}
           /\ AllDigits(t, b, e)
           /\ At(t, e + 1) \notin Digit}

\* Keyword occurrences <<i, b, e>>: a keyword of kws at i, then only ':'
\* and ' ' up to b, then the whole digit run b..e
AmountOccurrences(t, kws) ==
    UNION {{<<i, r[1], r[2]>> : r \in AmountsAfter(t, i + Len(kws[k]))} :
             <<i, k>> \in {x \in (1..Len(t)) \X (1..Len(kws)) :
                             OccursAt(t, x[1], kws[x[2]])}}

\* The keywords of the two amounts: "銷售額", "Amount" and "稅額", "Tax"
SalesWords == << <<"u92B7", "u552E", "u984D">>,
                 <<"A", "m", "o", "u", "n", "t">> >>

TaxWords == << <<"u7A05", "u984D">>, <<"T", "a", "x">> >>

\* The amount the rule of fields 5 and 6 gives for the keywords kws
AmountFor(t, kws) ==
    LET O == AmountOccurrences(t, kws)
    IN IF O = {} THEN <<>>
       ELSE LET o == CHOOSE x \in O : \A q \in O : x[1] <= q[1]
            IN SubSeq(t, o[2], o[3])

-----------------------------------------------------------------------------
(* Properties of the extractor, checked under SpecExtract.                 *)

\* "95汽油 00.000 L"
DefaultItem == <<"9", "5", "u6C7D", "u6CB9", " ", "0", "0", ".", "0", "0", "0", " ", "L">>

\* C1: extract is total and defaults per field.  For every input text the
\* returned record has exactly the six fields, in order, and each field
\* whose pattern occurs nowhere in the text holds its own default (the empty
\* string; "95汽油 00.000 L" for the item), whatever the other five patterns
\* do.  For a text in which no pattern occurs the record is
\* ("", "", "", "95汽油 00.000 L", "", "").
C1_TotalDefaults ==
    Extracted =>
        LET t == FullText
        IN /\ [k \in 1..Len(data) |-> data[k][1]]
                = <<KSeller, KDate, KNumber, KItem, KSales, KTax>>
           /\ WordBoundedRuns(t) = {} => Field(KSeller) = <<>>
           /\ DateOccurrences(t) = {} => Field(KDate) = <<>>
           /\ InvOccurrences(t) = {} => Field(KNumber) = <<>>
           /\ DecimalsAfterMarker(t) = {} => Field(KItem) = DefaultItem
           /\ AmountOccurrences(t, SalesWords) = {} => Field(KSales) = <<>>
           /\ AmountOccurrences(t, TaxWords) = {} => Field(KTax) = <<>>

\* C1 witness: a text in which the date and the tax patterns occur and the
\* other four do not; the four fields hold their defaults.
C1_Witness ==
    /\ Extracted
    /\ DateOccurrences(FullText) # {}
    /\ AmountOccurrences(FullText, TaxWords) # {}
    /\ WordBoundedRuns(FullText) = {}
    /\ InvOccurrences(FullText) = {}
    /\ DecimalsAfterMarker(FullText) = {}
    /\ AmountOccurrences(FullText, SalesWords) = {}
    /\ Field(KDate) # <<>>
    /\ Field(KTax) # <<>>
    /\ Field(KItem) = DefaultItem

\* C2 as stated: seller_id is empty when the text has no run of exactly 8
\* digits bounded on both sides by a non-digit character or the end of the
\* text, and is the first such run otherwise.
C2_DigitBounded ==
    Extracted =>
        LET R == DigitBoundedRuns(FullText)
        IN Field(KSeller) = IF R = {} THEN <<>>
                            ELSE SubSeq(FullText, Least(R), Least(R) + 7)

\* C2 amended: seller_id is empty when the text has no run of exactly 8
\* digits bounded on both sides by a non-word character (not a letter, a
\* digit or an underscore) or the end of the text, and is the first such run,
\* copied as a literal substring, otherwise.
C2_WordBounded ==
    Extracted =>
        LET R == WordBoundedRuns(FullText)
        IN Field(KSeller) = IF R = {} THEN <<>>
                            ELSE SubSeq(FullText, Least(R), Least(R) + 7)

\* C2 witness: the first digit-bounded run follows a letter, a later run is
\* word-bounded, and the later one is the seller id.
C2_Witness ==
    /\ Extracted
    /\ WordBoundedRuns(FullText) # {}
    /\ Least(DigitBoundedRuns(FullText)) < Least(WordBoundedRuns(FullText))
    /\ Field(KSeller) # <<>>

\* The date the rule of field 2 gives for the first occurrence o = <<i, n>>:
\* the year plus 1911 when it has 3 digits, in the form YYYY/MM/DD
IsDateOf(d, t, o) ==
    LET i == o[1]
        n == o[2]
    IN /\ Len(d) = 10
       /\ AllDigits(d, 1, 4)
       /\ IF n = 3
          THEN ToInt(SubSeq(d, 1, 4)) = ToInt(SubSeq(t, i, i + 2)) + 1911
          ELSE SubSeq(d, 1, 4) = SubSeq(t, i, i + 3)
       /\ d[5] = "/"
       /\ SubSeq(d, 6, 7) = SubSeq(t, i + n + 1, i + n + 2)
       /\ d[8] = "/"
       /\ SubSeq(d, 9, 10) = SubSeq(t, i + n + 4, i + n + 5)

DateRule ==
    LET t == FullText
    IN IF DateOccurrences(t) = {} THEN Field(KDate) = <<>>
       ELSE IsDateOf(Field(KDate), t, FirstDate(t))

\* The first date occurrence of t is the word w
FirstDateIs(t, w) ==
    /\ DateOccurrences(t) # {}
    /\ OccursAt(t, FirstDate(t)[1], w)
    /\ Len(w) = FirstDate(t)[2] + 6

\* C3 as stated: the date rule, and a text containing "113/05/20" yields
\* "2024/05/20", a text containing "2024-05-20" yields "2024/05/20".
C3_Containing ==
    Extracted =>
        /\ DateRule
        /\ Contains(FullText, <<"1", "1", "3", "/", "0", "5", "/", "2", "0">>)
             => Field(KDate) = <<"2", "0", "2", "4", "/", "0", "5", "/", "2", "0">>
        /\ Contains(FullText, <<"2", "0", "2", "4", "-", "0", "5", "-", "2", "0">>)
             => Field(KDate) = <<"2", "0", "2", "4", "/", "0", "5", "/", "2", "0">>

\* C3 amended: invoice_date is empty when the text has no occurrence of
\* year, separator, month, separator, day (3 or 4 digits, 2 digits, 2
\* digits; separators '/', '.', '-'); otherwise, for the first occurrence,
\* it is Y/MM/DD with Y the year plus 1911 when the year has 3 digits and
\* the year unchanged when it has 4: 4 digits, '/', 2 digits, '/', 2 digits.
\* A text whose first occurrence is "113/05/20" yields "2024/05/20", and so
\* does a text whose first occurrence is "2024-05-20".
C3_FirstOccurrence ==
    Extracted =>
        /\ DateRule
        /\ FirstDateIs(FullText, <<"1", "1", "3", "/", "0", "5", "/", "2", "0">>)
             => Field(KDate) = <<"2", "0", "2", "4", "/", "0", "5", "/", "2", "0">>
        /\ FirstDateIs(FullText, <<"2", "0", "2", "4", "-", "0", "5", "-", "2", "0">>)
             => Field(KDate) = <<"2", "0", "2", "4", "/", "0", "5", "/", "2", "0">>

\* C3 witness: the first occurrence is "113/05/20", the year is converted.
C3_Witness ==
    /\ Extracted
    /\ FirstDateIs(FullText, <<"1", "1", "3", "/", "0", "5", "/", "2", "0">>)
    /\ Field(KDate) = <<"2", "0", "2", "4", "/", "0", "5", "/", "2", "0">>

InvRule ==
    LET t == FullText
    IN IF InvOccurrences(t) = {} THEN Field(KNumber) = <<>>
       ELSE LET i == FirstInv(t)[1]
                s == FirstInv(t)[2]
            IN Field(KNumber)
                 = SubSeq(t, i, i + 1) \o SubSeq(t, i + 2 + s, i + 9 + s)

\* The three separator forms of the invoice number AB12345678
ABForms == {<<"A", "B", "-", "1", "2", "3", "4", "5", "6", "7", "8">>,
            <<"A", "B", " ", "1", "2", "3", "4", "5", "6", "7", "8">>,
            <<"A", "B", "1", "2", "3", "4", "5", "6", "7", "8">>}

\* C4 as stated: the invoice number rule, and any text containing
\* "AB-12345678", "AB 12345678" or "AB12345678" yields "AB12345678".
C4_Containing ==
    Extracted =>
        /\ InvRule
        /\ (\E w \in ABForms : Contains(FullText, w))
             => Field(KNumber) = <<"A", "B", "1", "2", "3", "4", "5", "6", "7", "8">>

\* C4 amended: invoice_number is the two letters and eight digits, with no
\* separator, of the first occurrence of 2 uppercase letters, an optional
\* single '-' or space, and 8 digits; it is empty when there is no such
\* occurrence.  Any text whose first occurrence is "AB-12345678",
\* "AB 12345678" or "AB12345678" yields "AB12345678".
C4_FirstOccurrence ==
    Extracted =>
        /\ InvRule
        /\ (/\ InvOccurrences(FullText) # {}
            /\ \E w \in ABForms :
                  /\ OccursAt(FullText, FirstInv(FullText)[1], w)
                  /\ Len(w) = 10 + FirstInv(FullText)[2])
             => Field(KNumber) = <<"A", "B", "1", "2", "3", "4", "5", "6", "7", "8">>

\* C4 witness: the first occurrence is "AB 12345678", two fragments that
\* the join put a space between.
C4_Witness ==
    /\ Extracted
    /\ InvOccurrences(FullText) # {}
    /\ OccursAt(FullText, FirstInv(FullText)[1], <<"A", "B", " ", "1", "2", "3", "4", "5", "6", "7", "8">>)
    /\ Field(KNumber) = <<"A", "B", "1", "2", "3", "4", "5", "6", "7", "8">>

\* C5: item_description is "95汽油 <liters> L", where <liters> is the
\* decimal number with 3 fractional digits nearest after the first marker
\* "95", and "00.000" when no such number follows a marker.  A decimal
\* number is one or more digits, a point and 3 digits as they stand in the
\* text: of "7.8912" it is "7.891".
C5_Item ==
    Extracted =>
        LET t == FullText
            N == DecimalsAfterMarker(t)
        IN IF N = {} THEN Field(KItem) = DefaultItem
           ELSE LET n == CHOOSE x \in N : \A y \in N : x[1] <= y[1]
                IN Field(KItem)
                     = <<"9", "5", "u6C7D", "u6CB9", " ">> \o SubSeq(t, n[1], n[2])
                         \o <<" ", "L">>

\* C5 witness: two numbers follow the marker and the nearer one is taken.
C5_Witness ==
    /\ Extracted
    /\ \E x, y \in DecimalsAfterMarker(FullText) : x[2] < y[1]
    /\ Field(KItem) # DefaultItem

\* C6: sales_amount is the run of digits after the first occurrence of a
\* sales keyword ("銷售額", "Amount") that only ':' and ' ' separate from a
\* digit, and empty when there is none; tax_amount likewise with the tax
\* keywords ("稅額", "Tax").  Each is a function of the text alone.
C6_Amounts ==
    Extracted =>
        /\ Field(KSales) = AmountFor(FullText, SalesWords)
        /\ Field(KTax) = AmountFor(FullText, TaxWords)

\* C6 witness: a tax keyword with its amount in a text with no sales
\* keyword occurrence; the tax amount is found and the sales amount empty.
C6_Witness ==
    /\ Extracted
    /\ AmountOccurrences(FullText, SalesWords) = {}
    /\ AmountOccurrences(FullText, TaxWords) # {}
    /\ Field(KSales) = <<>>
    /\ Field(KTax) # <<>>

-----------------------------------------------------------------------------
(* Properties of the record table, checked under Spec.                     *)

\* The six columns in schema order:
\* 賣方統編, 發票日期, 發票號碼, 項目, 憑證金額, 原幣稅額
Schema == <<"u8CE3u65B9u7D71u7DE8", "u767Cu7968u65E5u671F",
            "u767Cu7968u865Fu78BC", "u9805u76EE",
            "u6191u8B49u91D1u984D", "u539Fu5E63u7A05u984D">>

\* The values of a record in schema order
RowOf(d) == [k \in 1..Len(Schema) |-> Get(d, Schema[k])]

\* C7: each confirmation appends exactly one record.  With rows r1..rn in
\* the store before the confirmation, the table right after the append (the
\* one the editor is given) holds r1..rn unchanged and in order, then the
\* extracted record as row n+1; nothing is validated or deduplicated.
C7_Append ==
    [][last' = "confirm" =>
         /\ editor_in'.columns = df.columns
         /\ editor_in'.rows = Append(df.rows, RowOf(data'))
         /\ data' = extract_info(img_file.results)]_vars

\* C7 witness: the invoice was confirmed twice and the store holds two equal
\* rows.
C7_Witness ==
    /\ last = "confirm"
    /\ Len(df.rows) = 2
    /\ df.rows[1] = df.rows[2]
    /\ df.rows[2][3] # <<>>

\* C8: after the clear action, whatever the store held, the store is the
\* table of the session start, and the next read of it (the editor's, in the
\* rerun that follows) sees zero rows and the six columns in schema order.
C8_Clear ==
    /\ last = "clear" => df = InitDF /\ rerun
    /\ last = "rerun" => /\ editor_in.rows = <<>>
                         /\ editor_in.columns = Schema
                         /\ editor_in = InitDF

\* C8 witness: the clear button was pressed on a store of two rows.
C8_Witness ==
    /\ last = "clear"
    /\ Len(edited_df.rows) = 2
    /\ df.rows = <<>>

\* C9: the store starts empty and changes only in a confirmation (append),
\* a table edit (replaced by the editor's content) or a clear; a run that
\* only shows the preview of a submitted image leaves it as it was, and so
\* does an export.
C9_Frame ==
    /\ df.rows = <<>>
    /\ [][/\ df' # df => last' \in {"confirm", "edit", "clear"}
          /\ last' \in {"submit", "download"} => df' = df
          /\ last' = "edit" => df' = edited_df' /\ df' # df]_vars

\* C9 witness: an image was submitted and previewed over a store of one row.
C9_Witness ==
    /\ last = "submit"
    /\ img_file.present
    /\ data # NoData
    /\ Len(df.rows) = 1

\* C10: the export is offered exactly in the runs in which the store, after
\* the append and the editor write-back, has at least one row; the table
\* handed to the writer is then that store: its rows in order under the six
\* columns in schema order.  No export is offered for an empty store, and
\* none in the run that follows a clear.
C10_Export ==
    /\ exported.offered <=> Len(edited_df.rows) >= 1
    /\ exported.offered =>
          /\ exported.table = edited_df
          /\ exported.table.columns = Schema
          /\ exported.table.rows # <<>>
    /\ ~rerun => df = edited_df
    /\ last = "rerun" => ~exported.offered

\* C10 witness: a confirmation made the store non-empty and the export of
\* that run carries the new row.
C10_Witness ==
    /\ last = "confirm"
    /\ exported.offered
    /\ Len(exported.table.rows) = 1
    /\ exported.table = df

=============================================================================
